---- MODULE Spec2Model ----
(***************************************************************************)
(* Model of RestartCleaner (restart_cleaner_standalone.{h,cpp}): a manager *)
(* that keeps the N most recent "restore.XXXXXX" directories under a base  *)
(* path and removes the older ones.  Directory names are sequences of      *)
(* one-character strings so that parseIterationNum is modelled on the      *)
(* characters it inspects.  The filesystem is the kind of the base path    *)
(* together with the kind of each child of a fixed pool; child k has the   *)
(* name PoolSeq[k], and a path below the base is written as its k.         *)
(***************************************************************************)
EXTENDS Integers, Sequences, FiniteSets, TLC

VARIABLES baseKind, children, cleaner, last, dirname, parsed, cli, scanned,
          origin

vars ==
  <<baseKind, children, cleaner, last, dirname, parsed, cli, scanned, origin>>

(***************************************************************************)
(* Bounds of the exploration.                                              *)
(***************************************************************************)
MaxKeep == 2
MaxChildren == 4
MaxDigits == 7

(***************************************************************************)
(* Program constants.                                                      *)
(***************************************************************************)
NameLength == 14
PrefixLength == 8
DigitCount == 6
IntMax == 2147483647

Prefix == <<"r", "e", "s", "t", "o", "r", "e", ".">>

Digits == {"0", "1", "2", "3", "4", "5", "6", "7", "8", "9"}

\* std::isdigit on the characters of a name (ASCII names, "C" locale)
IsDigit(c) == c \in Digits

DigitVal(c) ==
  CASE c = "0" -> 0 [] c = "1" -> 1 [] c = "2" -> 2 [] c = "3" -> 3
    [] c = "4" -> 4 [] c = "5" -> 5 [] c = "6" -> 6 [] c = "7" -> 7
    [] c = "8" -> 8 [] c = "9" -> 9

\* std::stoi (base 10) on a string without blanks or sign: the leading
\* digits are accumulated left to right and the conversion stops at the
\* first other character; std::invalid_argument when there is no leading
\* digit, std::out_of_range when the value does not fit an int.
RECURSIVE StoiAcc(_, _, _)
StoiAcc(s, k, acc) ==
  IF k > Len(s) \/ ~IsDigit(s[k]) THEN [threw |-> FALSE, value |-> acc]
  ELSE LET next == acc * 10 + DigitVal(s[k])
       IN  IF next > IntMax THEN [threw |-> TRUE, value |-> 0]
           ELSE StoiAcc(s, k + 1, next)

Stoi(s) ==
  IF Len(s) = 0 \/ ~IsDigit(s[1]) THEN [threw |-> TRUE, value |-> 0]
  ELSE StoiAcc(s, 1, 0)

\* std::string::substr(pos, count), pos counted from 0 and pos <= length;
\* the result stops at the end of the string
Substr(s, pos, count) ==
  SubSeq(s, pos + 1, IF pos + count > Len(s) THEN Len(s) ELSE pos + count)

\* parseIterationNum without the loop that checks the six characters
ParseIterationNumNoDigitCheck(name) ==
  IF Len(name) # NameLength \/ Substr(name, 0, PrefixLength) # Prefix
  THEN -1
  ELSE LET number_part == Substr(name, PrefixLength, Len(name))
       IN  IF Len(number_part) # DigitCount THEN -1
           ELSE LET r == Stoi(number_part)
                IN  IF r.threw THEN -1 ELSE r.value

\* parseIterationNum without the two length checks
ParseIterationNumAnyLength(name) ==
  IF Substr(name, 0, PrefixLength) # Prefix
  THEN -1
  ELSE LET number_part == Substr(name, PrefixLength, Len(name))
       IN  IF \E k \in 1..Len(number_part) : ~IsDigit(number_part[k])
           THEN -1
           ELSE LET r == Stoi(number_part)
                IN  IF r.threw THEN -1 ELSE r.value

\* RestartCleaner::parseIterationNum
ParseIterationNum(name) ==
  IF Len(name) # NameLength \/ Substr(name, 0, PrefixLength) # Prefix
  THEN -1
  ELSE LET number_part == Substr(name, PrefixLength, Len(name))
       IN  IF Len(number_part) # DigitCount THEN -1
           ELSE IF \E k \in 1..Len(number_part) : ~IsDigit(number_part[k])
           THEN -1
           ELSE LET r == Stoi(number_part)
                IN  IF r.threw THEN -1 ELSE r.value

(***************************************************************************)
(* The filesystem under the base path.                                     *)
(***************************************************************************)
PoolSeq ==
  << Prefix \o <<"0", "0", "3", "0", "0", "0">>,
     Prefix \o <<"0", "0", "0", "0", "0", "0">>,
     Prefix \o <<"1", "2", "3", "4", "5">>,
     Prefix \o <<"9", "9", "9", "9", "9", "9">>,
     Prefix \o <<"a", "b", "c", "1", "2", "3">>,
     Prefix \o <<"0", "0", "0", "1", "0", "0">> >>

PoolSize == Len(PoolSeq)

Entries == 1..PoolSize

\* entry.path().filename().string()
Filename(k) == PoolSeq[k]

ChildKinds == {"absent", "dir", "file"}

BaseKinds == {"dir", "missing", "file", "unreadable"}

NoChildren == [k \in Entries |-> "absent"]

Present(ch) == {k \in Entries : ch[k] # "absent"}

\* the existence test asking for a directory
ExistsAsDirectory(base) == base \in {"dir", "unreadable"}

\* fs::exists(path)
Exists(base) == base # "missing"

\* the scan without the is_directory test
IsDirectoryAnyKind(kind) == TRUE

\* directory_entry::is_directory
IsDirectory(kind) == kind = "dir"

\* The order in which fs::directory_iterator yields the children is not
\* specified: the pool order (which is not the iteration order), or its
\* reverse when rev.
ScanIndex(k, rev) == IF rev THEN PoolSize + 1 - k ELSE k

\* the loop of getAllRestartDirs over the directory entries
RECURSIVE ScanFrom(_, _, _, _)
ScanFrom(k, ch, rev, acc) ==
  IF k > PoolSize THEN acc
  ELSE LET entry == ScanIndex(k, rev)
       IN  ScanFrom(k + 1, ch, rev,
                    IF ch[entry] # "absent" /\ IsDirectory(ch[entry])
                       /\ ParseIterationNum(Filename(entry)) >= 0
                    THEN Append(acc, entry) ELSE acc)

\* fs::directory_iterator(restart_dir) throws unless the path is a
\* directory that can be opened
CanIterate(base) == base = "dir"

\* getAllRestartDirs swallowing the exception of the scan
GetAllRestartDirsSwallow(base, ch, rev) ==
  IF ~Exists(base) THEN [threw |-> FALSE, dirs |-> <<>>]
  ELSE IF ~CanIterate(base) THEN [threw |-> FALSE, dirs |-> <<>>]
  ELSE [threw |-> FALSE, dirs |-> ScanFrom(1, ch, rev, <<>>)]

\* RestartCleaner::getAllRestartDirs: any exception of the scan is rethrown
\* as std::runtime_error
GetAllRestartDirs(base, ch, rev) ==
  IF ~Exists(base) THEN [threw |-> FALSE, dirs |-> <<>>]
  ELSE IF ~CanIterate(base) THEN [threw |-> TRUE, dirs |-> <<>>]
  ELSE [threw |-> FALSE, dirs |-> ScanFrom(1, ch, rev, <<>>)]

(***************************************************************************)
(* std::sort as used by the two callers: on (iteration, path) pairs and on *)
(* iteration numbers.  Two valid names with the same iteration are the     *)
(* same name, so the comparison of pairs is decided by the iteration.      *)
(***************************************************************************)
\* the comparison of the sort reversed
PairGreater(a, b) == a[1] > b[1]

PairLess(a, b) == a[1] < b[1]

RECURSIVE InsertPair(_, _)
InsertPair(sorted, p) ==
  IF sorted = <<>> THEN <<p>>
  ELSE IF PairLess(p, Head(sorted)) THEN <<p>> \o sorted
  ELSE <<Head(sorted)>> \o InsertPair(Tail(sorted), p)

\* the sort of dirs_with_iter left out
SortPairsOmitted(s) == s

RECURSIVE SortPairs(_)
SortPairs(s) ==
  IF s = <<>> THEN <<>> ELSE InsertPair(SortPairs(Tail(s)), Head(s))

RECURSIVE InsertInt(_, _)
InsertInt(sorted, x) ==
  IF sorted = <<>> THEN <<x>>
  ELSE IF x < Head(sorted) THEN <<x>> \o sorted
  ELSE <<Head(sorted)>> \o InsertInt(Tail(sorted), x)

\* the sort left out
SortIntsOmitted(s) == s

RECURSIVE SortInts(_)
SortInts(s) ==
  IF s = <<>> THEN <<>> ELSE InsertInt(SortInts(Tail(s)), Head(s))

\* the loop of getAvailableIterations over all_dirs (push_back when iter >= 0)
RECURSIVE CollectIterations(_, _, _)
CollectIterations(dirs, k, acc) ==
  IF k > Len(dirs) THEN acc
  ELSE LET iter == ParseIterationNum(Filename(dirs[k]))
       IN  CollectIterations(dirs, k + 1,
                             IF iter >= 0 THEN Append(acc, iter) ELSE acc)

\* getAvailableIterations answering from the entries of its previous scan
GetAvailableIterationsCached(base, ch, rev) ==
  LET cached == [k \in DOMAIN ch |->
                   IF k \in scanned.seen THEN "dir" ELSE "absent"]
      scan == GetAllRestartDirs(base, IF scanned.calls > 0 THEN cached ELSE ch,
                                rev)
  IN  IF scan.threw THEN [result |-> "ok", value |-> <<>>]
      ELSE [result |-> "ok",
            value |-> SortInts(CollectIterations(scan.dirs, 1, <<>>))]

\* getAvailableIterations without its try/catch
GetAvailableIterationsNoCatch(base, ch, rev) ==
  LET scan == GetAllRestartDirs(base, ch, rev)
  IN  IF scan.threw THEN [result |-> "runtime_error", value |-> <<>>]
      ELSE [result |-> "ok",
            value |-> SortInts(CollectIterations(scan.dirs, 1, <<>>))]

\* RestartCleaner::getAvailableIterations: a scan error is caught and the
\* (still empty) vector is returned
GetAvailableIterations(base, ch, rev) ==
  LET scan == GetAllRestartDirs(base, ch, rev)
  IN  IF scan.threw THEN [result |-> "ok", value |-> <<>>]
      ELSE [result |-> "ok",
            value |-> SortInts(CollectIterations(scan.dirs, 1, <<>>))]

\* the loop of keepRecentN building dirs_with_iter
RECURSIVE CollectPairs(_, _, _)
CollectPairs(dirs, k, acc) ==
  IF k > Len(dirs) THEN acc
  ELSE LET iter == ParseIterationNum(Filename(dirs[k]))
       IN  CollectPairs(dirs, k + 1,
                        IF iter >= 0 THEN Append(acc, <<iter, dirs[k]>>)
                        ELSE acc)

\* fs::remove_all(dir_path): throws for the paths of fails and leaves the
\* entry in place; otherwise the entry is gone
RemoveAll(ch, name, fails) ==
  IF name \in fails THEN [threw |-> TRUE, ch |-> ch]
  ELSE [threw |-> FALSE, ch |-> [ch EXCEPT ![name] = "absent"]]

\* one entry kept too few
NumToDeleteOffByOne(size, keep) == size - keep + 1

NumToDelete(size, keep) == size - keep

\* the loop body with the dry-run test left out
DeleteEntryIgnoringDryRun(ch, dir_path, dry, fails) ==
  RemoveAll(ch, dir_path, fails)

\* the body of the deletion loop: a dry run only reports the path
DeleteEntry(ch, dir_path, dry, fails) ==
  IF dry THEN [threw |-> FALSE, ch |-> ch]
  ELSE RemoveAll(ch, dir_path, fails)

\* the deletion loop without the try/catch around remove_all
RECURSIVE DeleteLoopNoCatch(_, _, _, _, _, _, _, _)
DeleteLoopNoCatch(i, num_to_delete, dirs_with_iter, ch, dry, fails, processed, failed) ==
  IF i > num_to_delete
  THEN [result |-> "ok", ch |-> ch, processed |-> processed, failed |-> failed]
  ELSE LET dir_path == dirs_with_iter[i][2]
           r == DeleteEntry(ch, dir_path, dry, fails)
       IN  IF r.threw
           THEN [result |-> "filesystem_error", ch |-> r.ch,
                 processed |-> Append(processed, dir_path),
                 failed |-> failed \cup {dir_path}]
           ELSE DeleteLoopNoCatch(i + 1, num_to_delete, dirs_with_iter, r.ch,
                                  dry, fails, Append(processed, dir_path),
                                  failed)

\* the deletion loop of keepRecentN, i counted from 1; the exception of a
\* failed remove_all is caught and the loop goes on
RECURSIVE DeleteLoop(_, _, _, _, _, _, _, _)
DeleteLoop(i, num_to_delete, dirs_with_iter, ch, dry, fails, processed, failed) ==
  IF i > num_to_delete
  THEN [result |-> "ok", ch |-> ch, processed |-> processed, failed |-> failed]
  ELSE LET dir_path == dirs_with_iter[i][2]
           r == DeleteEntry(ch, dir_path, dry, fails)
       IN  DeleteLoop(i + 1, num_to_delete, dirs_with_iter, r.ch,
                      dry, fails, Append(processed, dir_path),
                      IF r.threw THEN failed \cup {dir_path} ELSE failed)

\* RestartCleaner::keepRecentN
KeepRecentN(base, ch, keep, dry, rev, fails) ==
  LET scan == GetAllRestartDirs(base, ch, rev)
      nothing == [result |-> "ok", ch |-> ch, processed |-> <<>>,
                  failed |-> {}]
  IN  IF scan.threw THEN [nothing EXCEPT !.result = "runtime_error"]
      ELSE IF scan.dirs = <<>> THEN nothing
      ELSE LET dirs_with_iter == SortPairs(CollectPairs(scan.dirs, 1, <<>>))
           IN  IF Len(dirs_with_iter) <= keep THEN nothing
               ELSE DeleteLoop(1, NumToDelete(Len(dirs_with_iter), keep),
                               dirs_with_iter, ch, dry, fails, <<>>, {})

\* RestartCleaner::parseStrategy
ParseStrategy(strategy_str) ==
  IF strategy_str = "KEEP_RECENT_N"
  THEN [threw |-> FALSE, value |-> "KEEP_RECENT_N"]
  ELSE [threw |-> TRUE, value |-> "none"]

\* the constructor accepting a keep count of zero
ConstructResultAllowZero(base, keep, strategy) ==
  IF ParseStrategy(strategy).threw THEN "invalid_argument"
  ELSE IF keep < 0 THEN "invalid_argument"
  ELSE IF ~Exists(base) THEN "invalid_argument"
  ELSE "ok"

\* RestartCleaner::RestartCleaner: the member initialisers run parseStrategy
\* first, then the body checks keep_restart_count and fs::exists
ConstructResult(base, keep, strategy) ==
  IF ParseStrategy(strategy).threw THEN "invalid_argument"
  ELSE IF keep <= 0 THEN "invalid_argument"
  ELSE IF ~Exists(base) THEN "invalid_argument"
  ELSE "ok"

(***************************************************************************)
(* State.  cleaner is the one manager instance (its const members); last   *)
(* records the most recent event: the call, its outcome, and the           *)
(* filesystem it started from.                                             *)
(***************************************************************************)
NoCleaner == [state |-> "none", keep |-> 0, dry |-> FALSE]

NoArgs == [keep |-> 0, strategy |-> ""]

Event(op, result, value, args, bk, ch, processed, failed) ==
  [op |-> op, result |-> result, value |-> value, args |-> args,
   beforeBase |-> bk, before |-> ch, processed |-> processed,
   failed |-> failed]

KeepInputs == (-1)..MaxKeep

StrategyInputs == {"KEEP_RECENT_N", "SMART_RETENTION"}

NotParsed == [done |-> FALSE, value |-> 0]

NoCli == [phase |-> "none", argv |-> <<>>, exit |-> 0, constructed |-> FALSE]

NoScan == [calls |-> 0, seen |-> {}, stale |-> FALSE]

NoOrigin ==
  [disk |-> NoChildren, pending |-> {}, settled |-> FALSE, owed |-> {},
   wasSettled |-> FALSE]

Init ==
  /\ baseKind = "dir"
  /\ children = NoChildren
  /\ cleaner = NoCleaner
  /\ last = Event("none", "ok", <<>>, NoArgs, "dir", NoChildren, <<>>, {})
  /\ dirname = <<>>
  /\ parsed = NotParsed
  /\ cli = NoCli
  /\ scanned = NoScan
  /\ origin = NoOrigin

\* RestartCleaner::RestartCleaner
ConstructCall(keep, strategy, dry) ==
  /\ cleaner.state = "none"
  /\ LET r == ConstructResult(baseKind, keep, strategy)
     IN  /\ cleaner' = IF r = "ok"
                       THEN [state |-> "constructed", keep |-> keep,
                             dry |-> dry]
                       ELSE NoCleaner
         /\ last' = Event("construct", r, <<>>,
                          [keep |-> keep, strategy |-> strategy],
                          baseKind, children, <<>>, {})
  /\ UNCHANGED <<baseKind, children, dirname, parsed, cli>>

\* RestartCleaner::~RestartCleaner
DestructCall ==
  /\ cleaner.state = "constructed"
  /\ cleaner' = NoCleaner
  /\ last' = Event("destruct", "ok", <<>>, NoArgs, baseKind, children, <<>>, {})
  /\ UNCHANGED <<baseKind, children, dirname, parsed, cli>>

\* RestartCleaner::cleanup -> executeStrategy -> keepRecentN
CleanupCall(rev, fails) ==
  /\ cleaner.state = "constructed"
  /\ \E r \in {KeepRecentN(baseKind, children, cleaner.keep, cleaner.dry,
                            rev, fails)} :
         /\ children' = r.ch
         /\ last' = Event("cleanup", r.result, <<>>, NoArgs, baseKind,
                          children, r.processed, r.failed)
  /\ UNCHANGED <<baseKind, cleaner, dirname, parsed, cli>>

\* RestartCleaner::getAvailableIterations
ListIterationsCall(rev) ==
  /\ cleaner.state = "constructed"
  /\ LET r == GetAvailableIterations(baseKind, children, rev)
     IN  last' = Event("list", r.result, r.value, NoArgs, baseKind, children,
                       <<>>, {})
  /\ UNCHANGED <<baseKind, children, cleaner, dirname, parsed, cli>>

(***************************************************************************)
(* The environment: other processes change the base path between calls.    *)
(***************************************************************************)
External(bk, ch) ==
  Event("external", "ok", <<>>, NoArgs, bk, ch, <<>>, {})

Dirs(ch) == {k \in Entries : ch[k] = "dir"}

ExternalCreateCall(n, kind) ==
  /\ baseKind \in {"dir", "unreadable"}
  /\ children[n] = "absent"
  /\ kind \in {"dir", "file"}
  /\ Cardinality(Present(children)) < MaxChildren
  /\ children' = [children EXCEPT ![n] = kind]
  /\ UNCHANGED <<baseKind, cleaner, dirname, parsed, cli>>
  /\ last' = External(baseKind', children')

ExternalRemoveCall(n) ==
  /\ baseKind \in {"dir", "unreadable"}
  /\ children[n] # "absent"
  /\ children' = [children EXCEPT ![n] = "absent"]
  /\ UNCHANGED <<baseKind, cleaner, dirname, parsed, cli>>
  /\ last' = External(baseKind', children')

\* the base path is removed, replaced by a regular file, or recreated
ExternalReplaceBaseCall(kind) ==
  /\ kind \in {"missing", "file", "dir"}
  /\ kind # baseKind
  /\ baseKind \in {"dir", "missing", "file"}
  /\ baseKind' = kind
  /\ children' = NoChildren
  /\ UNCHANGED <<cleaner, dirname, parsed, cli>>
  /\ last' = External(baseKind', children')

\* the read permission of the base directory changes
ExternalChmodCall(kind) ==
  /\ baseKind \in {"dir", "unreadable"}
  /\ kind \in {"dir", "unreadable"}
  /\ kind # baseKind
  /\ baseKind' = kind
  /\ UNCHANGED <<children, cleaner, dirname, parsed, cli>>
  /\ last' = External(baseKind', children')

(***************************************************************************)
(* The calls and the environment as steps of the manager's specification:   *)
(* the observations kept for the other specifications stay as they are.    *)
(***************************************************************************)
Construct(keep, strategy, dry) ==
  ConstructCall(keep, strategy, dry) /\ UNCHANGED <<scanned, origin>>

Destruct ==
  DestructCall /\ UNCHANGED <<scanned, origin>>

Cleanup(rev, fails) ==
  CleanupCall(rev, fails) /\ UNCHANGED <<scanned, origin>>

ListIterations(rev) ==
  ListIterationsCall(rev) /\ UNCHANGED <<scanned, origin>>

ExternalCreate(n, kind) ==
  ExternalCreateCall(n, kind) /\ UNCHANGED <<scanned, origin>>

ExternalRemove(n) ==
  ExternalRemoveCall(n) /\ UNCHANGED <<scanned, origin>>

ExternalReplaceBase(kind) ==
  ExternalReplaceBaseCall(kind) /\ UNCHANGED <<scanned, origin>>

ExternalChmod(kind) ==
  ExternalChmodCall(kind) /\ UNCHANGED <<scanned, origin>>

Next ==
  \/ \E keep \in KeepInputs, strategy \in StrategyInputs, dry \in BOOLEAN :
       Construct(keep, strategy, dry)
  \/ Destruct
  \/ \E rev \in BOOLEAN, fails \in SUBSET Dirs(children) :
       Cleanup(rev, fails)
  \/ \E rev \in BOOLEAN : ListIterations(rev)
  \/ \E n \in Entries, kind \in {"dir", "file"} : ExternalCreate(n, kind)
  \/ \E n \in Entries : ExternalRemove(n)
  \/ \E kind \in BaseKinds : ExternalReplaceBase(kind)
  \/ \E kind \in BaseKinds : ExternalChmod(kind)

Spec == Init /\ [][Next]_vars

TypeOK ==
  /\ baseKind \in BaseKinds
  /\ children \in [Entries -> ChildKinds]
  /\ cleaner.state \in {"none", "constructed"}
  /\ baseKind \in {"missing", "file"} => children = NoChildren

(***************************************************************************)
(* parseIterationNum on its own: the name is drawn from names built of a   *)
(* prefix and a tail of up to MaxDigits characters.                        *)
(***************************************************************************)
TailChars == {"0", "1", "9", "x"}

MinDigits == DigitCount - 1

PrefixInputs ==
  { Prefix,
    <<"r", "e", "s", "t", "a", "r", "t", ".">>,
    <<"r", "e", "s", "t", "o", "r", "e">>,
    <<"x", "r", "e", "s", "t", "o", "r", "e", ".">> }

TailInputs == UNION {[1..n -> TailChars] : n \in MinDigits..MaxDigits}

InitParse ==
  /\ baseKind = "dir"
  /\ children = NoChildren
  /\ cleaner = NoCleaner
  /\ last = Event("none", "ok", <<>>, NoArgs, "dir", NoChildren, <<>>, {})
  /\ dirname \in {p \o t : p \in PrefixInputs, t \in TailInputs}
  /\ parsed = NotParsed
  /\ cli = NoCli
  /\ scanned = NoScan
  /\ origin = NoOrigin

ParseCall ==
  /\ ~parsed.done
  /\ parsed' = [done |-> TRUE, value |-> ParseIterationNum(dirname)]
  /\ UNCHANGED <<baseKind, children, cleaner, last, dirname, cli, scanned,
                 origin>>

NextParse == ParseCall

SpecParse == InitParse /\ [][NextParse]_vars

(***************************************************************************)
(* What the properties are stated in: the naming convention and the valid  *)
(* entries on disk, written down independently of the operations above.    *)
(***************************************************************************)
WellFormed(name) ==
  /\ Len(name) = Len(Prefix) + 6
  /\ \A k \in 1..Len(Prefix) : name[k] = Prefix[k]
  /\ \A k \in (Len(Prefix) + 1)..Len(name) : name[k] \in Digits

DecimalValue(name) ==
  LET d(k) == DigitVal(name[Len(Prefix) + k])
  IN  d(1) * 100000 + d(2) * 10000 + d(3) * 1000 + d(4) * 100 + d(5) * 10 + d(6)

IterationOf(k) == DecimalValue(Filename(k))

ValidOnDisk(ch) == {k \in Entries : ch[k] = "dir" /\ WellFormed(Filename(k))}

\* the n valid entries of ch with the smallest iteration numbers
Oldest(ch, n) ==
  {k \in ValidOnDisk(ch) :
     Cardinality({m \in ValidOnDisk(ch) : IterationOf(m) < IterationOf(k)}) < n}

Range(s) == {s[k] : k \in 1..Len(s)}

CleanupDone == last.op = "cleanup"

(***************************************************************************)
(* C1: a cleanup that is not a dry run, on a readable base directory with  *)
(* more valid entries than keepCount and with every deletion succeeding,   *)
(* removes exactly the (total - keepCount) valid entries with the smallest *)
(* iteration numbers, leaves exactly the keepCount valid entries with the  *)
(* largest iteration numbers, and touches no other child.                  *)
(***************************************************************************)
C1_DeletesOldestKeepsNewest ==
  ( /\ CleanupDone
    /\ ~cleaner.dry
    /\ last.beforeBase = "dir"
    /\ last.failed = {}
    /\ Cardinality(ValidOnDisk(last.before)) > cleaner.keep )
  => LET total == Cardinality(ValidOnDisk(last.before))
         gone == Oldest(last.before, total - cleaner.keep)
     IN  /\ last.result = "ok"
         /\ Cardinality(gone) = total - cleaner.keep
         /\ \A k \in gone : children[k] = "absent"
         /\ \A k \in Entries \ gone : children[k] = last.before[k]
         /\ Cardinality(ValidOnDisk(children)) = cleaner.keep
         /\ \A k \in ValidOnDisk(children), g \in gone :
              IterationOf(g) < IterationOf(k)

C1_Witness ==
  /\ CleanupDone
  /\ ~cleaner.dry
  /\ last.beforeBase = "dir"
  /\ last.failed = {}
  /\ Cardinality(ValidOnDisk(last.before)) >= cleaner.keep + 2
  /\ Cardinality(ValidOnDisk(children)) = cleaner.keep

(***************************************************************************)
(* C2: a cleanup of a manager constructed with dry-run changes nothing on  *)
(* disk: every child of the base path, and so the set of valid entries     *)
(* that listIterations reports, is the same after the call as before it.   *)
(***************************************************************************)
C2_DryRunChangesNothing ==
  (CleanupDone /\ cleaner.dry)
  => /\ children = last.before
     /\ baseKind = last.beforeBase
     /\ ValidOnDisk(children) = ValidOnDisk(last.before)
     /\ last.failed = {}

C2_Witness ==
  /\ CleanupDone
  /\ cleaner.dry
  /\ Len(last.processed) >= 2
  /\ children = last.before

(***************************************************************************)
(* C3: when the number of valid entries is at most keepCount (zero         *)
(* included), cleanup deletes nothing, dry run or not, and it returns      *)
(* normally when the base directory can be read.                           *)
(***************************************************************************)
C3_AtMostKeepCountDeletesNothing ==
  (CleanupDone /\ Cardinality(ValidOnDisk(last.before)) <= cleaner.keep)
  => /\ children = last.before
     /\ last.processed = <<>>
     /\ last.beforeBase = "dir" => last.result = "ok"

C3_Witness ==
  /\ CleanupDone
  /\ ~cleaner.dry
  /\ last.beforeBase = "dir"
  /\ Cardinality(ValidOnDisk(last.before)) = cleaner.keep
  /\ Cardinality(Present(last.before)) > cleaner.keep
  /\ children = last.before

(***************************************************************************)
(* C4: a child whose name is not a valid iteration identifier, and a child *)
(* that is not a directory, is never counted (the deletion set has         *)
(* max(0, valid - keepCount) entries), never listed by listIterations, and *)
(* never processed or removed by cleanup.                                  *)
(***************************************************************************)
C4_InvalidChildrenExcluded ==
  /\ CleanupDone =>
       /\ \A k \in Entries \ ValidOnDisk(last.before) :
            /\ children[k] = last.before[k]
            /\ k \notin Range(last.processed)
       /\ last.beforeBase = "dir" =>
            Len(last.processed) =
              IF Cardinality(ValidOnDisk(last.before)) > cleaner.keep
              THEN Cardinality(ValidOnDisk(last.before)) - cleaner.keep
              ELSE 0
  /\ last.op = "list" =>
       /\ Len(last.value) <= Cardinality(ValidOnDisk(last.before))
       /\ Range(last.value) \subseteq
            {IterationOf(k) : k \in ValidOnDisk(last.before)}

C4_Witness ==
  /\ CleanupDone
  /\ ~cleaner.dry
  /\ last.beforeBase = "dir"
  /\ Len(last.processed) >= 1
  /\ \E k \in Entries : last.before[k] = "dir" /\ ~WellFormed(Filename(k))
  /\ \E k \in Entries : last.before[k] = "file" /\ WellFormed(Filename(k))

(***************************************************************************)
(* C5: parseIterationNum returns a non-negative value exactly for the      *)
(* names made of "restore." and six decimal digits, the value being the    *)
(* base-10 value of the digits (leading zeros ignored), and -1 for every   *)
(* other name.                                                             *)
(***************************************************************************)
C5_ParseIterationNum ==
  parsed.done =>
    /\ parsed.value >= 0 <=> WellFormed(dirname)
    /\ WellFormed(dirname) => parsed.value = DecimalValue(dirname)
    /\ ~WellFormed(dirname) => parsed.value = -1

C5_Witness ==
  /\ parsed.done
  /\ dirname = Prefix \o <<"0", "0", "0", "1", "0", "9">>
  /\ parsed.value = 109

(***************************************************************************)
(* C6: on a readable base directory listIterations returns exactly the     *)
(* iteration numbers of the valid-named subdirectories, each once, in      *)
(* ascending order and none negative (the empty list when there is none),  *)
(* and the call changes nothing on disk.                                   *)
(***************************************************************************)
C6_ListIterations ==
  (last.op = "list" /\ last.beforeBase = "dir")
  => /\ Range(last.value) = {IterationOf(k) : k \in ValidOnDisk(last.before)}
     /\ Len(last.value) = Cardinality(ValidOnDisk(last.before))
     /\ \A i, j \in 1..Len(last.value) : i < j => last.value[i] < last.value[j]
     /\ \A i \in 1..Len(last.value) : last.value[i] >= 0
     /\ children = last.before
     /\ baseKind = last.beforeBase

C6_Witness ==
  /\ last.op = "list"
  /\ last.beforeBase = "dir"
  /\ Len(last.value) >= 3
  /\ Present(last.before) # ValidOnDisk(last.before)

(***************************************************************************)
(* C7: construction with a non-positive keepCount, a base path that does   *)
(* not exist, or a strategy other than "KEEP_RECENT_N" throws              *)
(* std::invalid_argument and yields no instance; every constructed manager *)
(* has keepCount > 0.                                                      *)
(***************************************************************************)
C7_ConstructionFails ==
  /\ ( /\ last.op = "construct"
       /\ \/ last.args.keep <= 0
          \/ last.beforeBase = "missing"
          \/ last.args.strategy # "KEEP_RECENT_N" )
     => (last.result = "invalid_argument" /\ cleaner.state = "none")
  /\ cleaner.state = "constructed" => cleaner.keep > 0

C7_Witness ==
  /\ last.op = "construct"
  /\ last.args.keep = 0
  /\ last.args.strategy = "KEEP_RECENT_N"
  /\ last.beforeBase = "dir"
  /\ last.result = "invalid_argument"

(***************************************************************************)
(* C8 as stated: whenever the base path cannot be read when cleanup runs,  *)
(* its removal after construction included, cleanup ends with the scan     *)
(* error.                                                                  *)
(***************************************************************************)
C8_AsStated ==
  (CleanupDone /\ last.beforeBase # "dir") => last.result = "runtime_error"

(***************************************************************************)
(* C8 amended: when the base path exists but cannot be iterated (not       *)
(* readable, or not a directory), cleanup ends with the scan error and     *)
(* deletes nothing; when the base path no longer exists, cleanup returns   *)
(* normally and deletes nothing.                                           *)
(***************************************************************************)
C8_ScanErrorPropagates ==
  /\ (CleanupDone /\ last.beforeBase \in {"unreadable", "file"})
     => (last.result = "runtime_error" /\ children = last.before)
  /\ (CleanupDone /\ last.beforeBase = "missing")
     => (last.result = "ok" /\ children = last.before
         /\ last.processed = <<>>)

C8_Witness ==
  /\ CleanupDone
  /\ last.beforeBase = "unreadable"
  /\ last.result = "runtime_error"
  /\ ~cleaner.dry
  /\ Cardinality(ValidOnDisk(last.before)) > cleaner.keep

(***************************************************************************)
(* C9: listIterations returns normally in every filesystem state, and its  *)
(* result is the empty list whenever the scan of the base path fails.      *)
(***************************************************************************)
C9_ListNeverFails ==
  last.op = "list"
  => /\ last.result = "ok"
     /\ last.beforeBase # "dir" => last.value = <<>>

C9_Witness ==
  /\ last.op = "list"
  /\ last.beforeBase = "unreadable"
  /\ ValidOnDisk(last.before) # {}
  /\ last.result = "ok"
  /\ last.value = <<>>

(***************************************************************************)
(* C10: in a cleanup that is not a dry run, whatever deletions fail, every *)
(* entry of the deletion set is attempted, cleanup returns normally, every *)
(* entry whose deletion did not fail is gone, and the failed ones are      *)
(* still there.                                                            *)
(***************************************************************************)
C10_PartialFailureIsolated ==
  ( /\ CleanupDone
    /\ ~cleaner.dry
    /\ last.beforeBase = "dir"
    /\ Cardinality(ValidOnDisk(last.before)) > cleaner.keep )
  => LET selected ==
           Oldest(last.before,
                  Cardinality(ValidOnDisk(last.before)) - cleaner.keep)
     IN  /\ last.result = "ok"
         /\ Range(last.processed) = selected
         /\ last.failed \subseteq selected
         /\ \A k \in selected \ last.failed : children[k] = "absent"
         /\ \A k \in last.failed : children[k] = last.before[k]

C10_Witness ==
  /\ CleanupDone
  /\ ~cleaner.dry
  /\ last.result = "ok"
  /\ \E i, j \in 1..Len(last.processed) :
       /\ i < j
       /\ last.processed[i] \in last.failed
       /\ last.processed[j] \notin last.failed
       /\ children[last.processed[j]] = "absent"

(***************************************************************************)
(* The command-line program (main_standalone.cpp).  argv[1] is the program *)
(* name (argv[0] of the source), so argc = Len(argv); the option, the      *)
(* directory and the flag are compared as whole tokens, N is a sequence of *)
(* characters because std::stoi reads it character by character.  The      *)
(* directory token names the base path of the model.                       *)
(***************************************************************************)
\* std::stoi (base 10) on a token without leading blanks: an optional sign,
\* then the leading digits, accumulated with the sign; the conversion
\* stops at the first other character.  std::invalid_argument when no digit
\* follows the sign, std::out_of_range when the value does not fit an int.
RECURSIVE StdStoiAcc(_, _, _, _)
StdStoiAcc(s, k, acc, neg) ==
  IF k > Len(s) \/ ~IsDigit(s[k]) THEN [threw |-> "none", value |-> acc]
  ELSE LET d == DigitVal(s[k])
           fits == IF neg
                   THEN \/ acc > -(IntMax \div 10)
                        \/ acc = -(IntMax \div 10) /\ d <= (IntMax % 10) + 1
                   ELSE \/ acc < IntMax \div 10
                        \/ acc = IntMax \div 10 /\ d <= IntMax % 10
       IN  IF ~fits THEN [threw |-> "out_of_range", value |-> 0]
           ELSE StdStoiAcc(s, k + 1,
                           IF neg THEN acc * 10 - d ELSE acc * 10 + d, neg)

StdStoi(s) ==
  LET signed == Len(s) > 0 /\ s[1] \in {"+", "-"}
      first == IF signed THEN 2 ELSE 1
  IN  IF first > Len(s) \/ ~IsDigit(s[first])
      THEN [threw |-> "invalid_argument", value |-> 0]
      ELSE StdStoiAcc(s, first, 0, signed /\ s[1] = "-")

\* the outcome of main when it returns before the manager is constructed
UsageExit(ch) ==
  [exit |-> 1, constructed |-> FALSE, cleaned |-> FALSE, result |-> "ok",
   ch |-> ch, processed |-> <<>>, failed |-> {}]

\* the try block of main: construct, cleanup, getAvailableIterations; any
\* std::exception gives exit code 1
MainTry(base, ch, keep_count, dry_run, rev, fails) ==
  IF ConstructResult(base, keep_count, "KEEP_RECENT_N") # "ok"
  THEN UsageExit(ch)
  ELSE LET r == KeepRecentN(base, ch, keep_count, dry_run, rev, fails)
           remaining == GetAvailableIterations(base, r.ch, rev)
       IN  [exit |-> IF r.result # "ok" \/ remaining.result # "ok"
                     THEN 1 ELSE 0,
            constructed |-> TRUE, cleaned |-> TRUE, result |-> r.result,
            ch |-> r.ch, processed |-> r.processed, failed |-> r.failed]

\* main
MainRun(argv, base, ch, rev, fails) ==
  LET argc == Len(argv)
  IN  IF argc < 4 \/ argc > 5 THEN UsageExit(ch)
      ELSE IF argv[2] # "--recent" THEN UsageExit(ch)
      ELSE IF argc = 5 /\ argv[5] # "--dry-run" THEN UsageExit(ch)
      ELSE LET dry_run == argc = 5
               n == StdStoi(argv[3])
           IN  IF n.threw # "none" THEN UsageExit(ch)
               ELSE IF n.value <= 0 THEN UsageExit(ch)
               ELSE MainTry(base, ch, n.value, dry_run, rev, fails)

NInputs ==
  { <<"1">>, <<"2">>, <<"0">>, <<"-", "1">>, <<"+", "1">>, <<"2", "x">>,
    <<"a", "b", "c">>, <<>>,
    <<"9", "9", "9", "9", "9", "9", "9", "9", "9", "9", "9">> }

ArgvInputs ==
  { SubSeq(<<"restart_cleaner", opt, n, "restart_dir", flag, "extra">>, 1, argc) :
      opt \in {"--recent", "--oldest"}, n \in NInputs,
      flag \in {"--dry-run", "--force"}, argc \in 3..6 }

\* the restart directories present when the program starts
MainDisks ==
  {ch \in [Entries -> {"absent", "dir"}] :
     Cardinality(Present(ch)) <= MaxChildren}

InitMain ==
  /\ baseKind \in BaseKinds
  /\ children \in MainDisks
  /\ baseKind \in {"missing", "file"} => children = NoChildren
  /\ cleaner = NoCleaner
  /\ last = Event("none", "ok", <<>>, NoArgs, baseKind, children, <<>>, {})
  /\ dirname = <<>>
  /\ parsed = NotParsed
  /\ cli \in {[phase |-> "start", argv |-> a, exit |-> 0,
               constructed |-> FALSE] : a \in ArgvInputs}
  /\ scanned = NoScan
  /\ origin = NoOrigin

\* one run of the program; the manager is a local of main and is gone when
\* main returns
MainCall(rev, fails) ==
  /\ cli.phase = "start"
  /\ LET r == MainRun(cli.argv, baseKind, children, rev, fails)
     IN  /\ children' = r.ch
         /\ cli' = [phase |-> "exited", argv |-> cli.argv, exit |-> r.exit,
                    constructed |-> r.constructed]
         /\ last' = Event(IF r.cleaned THEN "cleanup" ELSE "none", r.result,
                          <<>>, NoArgs, baseKind, children, r.processed,
                          r.failed)
  /\ UNCHANGED <<baseKind, cleaner, dirname, parsed, scanned, origin>>

NextMain ==
  \E rev \in BOOLEAN, fails \in SUBSET Dirs(children) : MainCall(rev, fails)

SpecMain == InitMain /\ [][NextMain]_vars

(***************************************************************************)
(* The usage errors, read off the tokens.                                  *)
(***************************************************************************)
Unsigned(s) == IF Len(s) > 0 /\ s[1] \in {"+", "-"} THEN Tail(s) ELSE s

IsDecimalInteger(s) ==
  /\ Len(Unsigned(s)) >= 1
  /\ \A k \in 1..Len(Unsigned(s)) : Unsigned(s)[k] \in Digits

RECURSIVE DropZeros(_)
DropZeros(s) ==
  IF s # <<>> /\ Head(s) = "0" THEN DropZeros(Tail(s)) ELSE s

RECURSIVE Horner(_)
Horner(s) ==
  IF s = <<>> THEN 0
  ELSE Horner(SubSeq(s, 1, Len(s) - 1)) * 10 + DigitVal(s[Len(s)])

\* for a decimal integer: its value is outside [-2^31, 2^31 - 1]
OutOfIntRange(s) ==
  LET sig == DropZeros(Unsigned(s))
      neg == s[1] = "-"
  IN  \/ Len(sig) > 10
      \/ /\ Len(sig) = 10
         /\ \/ Horner(SubSeq(sig, 1, 9)) > 214748364
            \/ /\ Horner(SubSeq(sig, 1, 9)) = 214748364
               /\ DigitVal(sig[10]) > (IF neg THEN 8 ELSE 7)

\* for a decimal integer: its value is <= 0
NotPositive(s) == s[1] = "-" \/ DropZeros(Unsigned(s)) = <<>>

UsageError(argv) ==
  \/ Len(argv) \notin {4, 5}
  \/ argv[2] # "--recent"
  \/ Len(argv) = 5 /\ argv[5] # "--dry-run"
  \/ ~IsDecimalInteger(argv[3])
  \/ OutOfIntRange(argv[3])
  \/ NotPositive(argv[3])

(***************************************************************************)
(* C11: for every usage error (an argument count other than 4 or 5, a      *)
(* first option other than --recent, a fifth argument other than           *)
(* --dry-run, an N that is not an integer or is out of range, an N <= 0)   *)
(* the program exits with code 1, constructs no manager and deletes        *)
(* nothing.                                                                *)
(***************************************************************************)
C11_UsageErrorsExitOne ==
  (cli.phase = "exited" /\ UsageError(cli.argv))
  => /\ cli.exit = 1
     /\ ~cli.constructed
     /\ children = last.before

(***************************************************************************)
(* The manager between calls: the same calls, with other processes adding  *)
(* and removing directories in between.  scanned observes what the         *)
(* manager's scans found: seen is the set of entries its latest scan       *)
(* returned, stale tells that at the latest call this set differed from    *)
(* the one of the scan before.  The manager itself holds no such field     *)
(* (its members are the four const members of the header).                 *)
(***************************************************************************)
Observe(found) ==
  [calls |-> 1, seen |-> found,
   stale |-> scanned.calls > 0 /\ scanned.seen # found]

Found(rev) == Range(GetAllRestartDirs(baseKind, children, rev).dirs)

RescanConstruct(keep, dry) ==
  /\ ConstructCall(keep, "KEEP_RECENT_N", dry)
  /\ scanned' = NoScan
  /\ UNCHANGED origin

RescanList(rev) ==
  /\ ListIterationsCall(rev)
  /\ scanned' = Observe(Found(rev))
  /\ UNCHANGED origin

RescanCleanup(rev, fails) ==
  /\ CleanupCall(rev, fails)
  /\ scanned' = Observe(Found(rev))
  /\ UNCHANGED origin

RescanCreate(n) ==
  /\ ExternalCreateCall(n, "dir")
  /\ scanned' = [scanned EXCEPT !.stale = FALSE]
  /\ UNCHANGED origin

RescanRemove(n) ==
  /\ ExternalRemoveCall(n)
  /\ scanned' = [scanned EXCEPT !.stale = FALSE]
  /\ UNCHANGED origin

NextRescan ==
  \/ \E keep \in 1..MaxKeep, dry \in BOOLEAN : RescanConstruct(keep, dry)
  \/ \E rev \in BOOLEAN : RescanList(rev)
  \/ \E rev \in BOOLEAN, fails \in SUBSET Dirs(children) :
       RescanCleanup(rev, fails)
  \/ \E n \in Entries : RescanCreate(n)
  \/ \E n \in Entries : RescanRemove(n)

SpecRescan == Init /\ [][NextRescan]_vars

(***************************************************************************)
(* C12: whatever calls and external additions and removals came before,    *)
(* listIterations returns exactly the iterations of the valid entries on   *)
(* disk at the call, and cleanup takes its deletion set from the valid     *)
(* entries on disk at the call: no result of an earlier scan is used.      *)
(***************************************************************************)
C12_EveryCallRescans ==
  /\ last.op = "list" =>
       /\ Range(last.value) = {IterationOf(k) : k \in ValidOnDisk(children)}
       /\ Len(last.value) = Cardinality(ValidOnDisk(children))
       /\ scanned.seen = ValidOnDisk(children)
  /\ CleanupDone =>
       /\ scanned.seen = ValidOnDisk(last.before)
       /\ Range(last.processed) =
            IF Cardinality(ValidOnDisk(last.before)) > cleaner.keep
            THEN Oldest(last.before,
                        Cardinality(ValidOnDisk(last.before)) - cleaner.keep)
            ELSE {}

C12_Witness ==
  /\ last.op = "list"
  /\ scanned.stale
  /\ Len(last.value) >= 2

(***************************************************************************)
(* C13: within one cleanup the entries of the deletion set are processed   *)
(* in strictly ascending iteration order and each exactly once; an entry   *)
(* whose deletion failed is not attempted a second time in that call.      *)
(***************************************************************************)
C13_AscendingOnce ==
  CleanupDone =>
    /\ \A i, j \in 1..Len(last.processed) :
         i < j => IterationOf(last.processed[i]) < IterationOf(last.processed[j])
    /\ Cardinality(Range(last.processed)) = Len(last.processed)
    /\ \A f \in last.failed :
         Cardinality({i \in 1..Len(last.processed) : last.processed[i] = f}) = 1

C13_Witness ==
  /\ CleanupDone
  /\ ~cleaner.dry
  /\ Len(last.processed) >= 3
  /\ last.processed[1] \in last.failed
  /\ last.processed[2] \notin last.failed

(***************************************************************************)
(* One manager on a base path that nobody else changes.  origin observes   *)
(* the run: disk is the content of the base path at the start, pending the *)
(* entries the latest cleanup failed to delete, settled tells that some    *)
(* cleanup has returned normally without a failed deletion; owed and       *)
(* wasSettled are pending and settled as they were when the latest cleanup *)
(* was called.                                                             *)
(***************************************************************************)
InitClosed ==
  /\ baseKind \in BaseKinds
  /\ children \in [Entries -> ChildKinds]
  /\ Cardinality(Present(children)) <= MaxChildren
  /\ baseKind \in {"missing", "file"} => children = NoChildren
  /\ cleaner = NoCleaner
  /\ last = Event("none", "ok", <<>>, NoArgs, baseKind, children, <<>>, {})
  /\ dirname = <<>>
  /\ parsed = NotParsed
  /\ cli = NoCli
  /\ scanned = NoScan
  /\ origin = [NoOrigin EXCEPT !.disk = children]

ClosedConstruct(keep, strategy, dry) ==
  /\ ConstructCall(keep, strategy, dry)
  /\ UNCHANGED <<scanned, origin>>

ClosedCleanup(rev, fails) ==
  /\ CleanupCall(rev, fails)
  /\ origin' = [disk |-> origin.disk,
                pending |-> last'.failed,
                settled |-> \/ origin.settled
                            \/ last'.result = "ok" /\ last'.failed = {},
                owed |-> origin.pending,
                wasSettled |-> origin.settled]
  /\ UNCHANGED scanned

ClosedList(rev) ==
  /\ ListIterationsCall(rev)
  /\ UNCHANGED <<scanned, origin>>

NextClosed ==
  \/ \E keep \in KeepInputs, strategy \in StrategyInputs, dry \in BOOLEAN :
       ClosedConstruct(keep, strategy, dry)
  \/ \E rev \in BOOLEAN, fails \in SUBSET Dirs(children) :
       ClosedCleanup(rev, fails)
  \/ \E rev \in BOOLEAN : ClosedList(rev)

SpecClosed == InitClosed /\ [][NextClosed]_vars

\* the n valid entries of ch with the largest iteration numbers
Newest(ch, n) ==
  {k \in ValidOnDisk(ch) :
     Cardinality({m \in ValidOnDisk(ch) : IterationOf(m) > IterationOf(k)}) < n}

Minimum(a, b) == IF a < b THEN a ELSE b

(***************************************************************************)
(* C14: with no external change of the base path, after any sequence of    *)
(* cleanup calls of one manager and whatever deletions fail, the keepCount *)
(* valid entries with the largest iteration numbers are still on disk and  *)
(* at least min(initial count, keepCount) valid entries remain; the        *)
(* entries a cleanup failed to delete are selected again by the next       *)
(* cleanup; and after a cleanup without a failed deletion a further        *)
(* cleanup deletes nothing.                                                *)
(***************************************************************************)
C14_RepeatedCleanup ==
  /\ cleaner.state = "constructed" =>
       /\ Newest(origin.disk, cleaner.keep) \subseteq ValidOnDisk(children)
       /\ Cardinality(ValidOnDisk(children)) >=
            Minimum(Cardinality(ValidOnDisk(origin.disk)), cleaner.keep)
       /\ \A k \in Entries \ ValidOnDisk(origin.disk) :
            children[k] = origin.disk[k]
  /\ (CleanupDone /\ last.result = "ok") =>
       origin.owed \subseteq Range(last.processed)
  /\ (CleanupDone /\ origin.wasSettled) =>
       /\ children = last.before
       /\ ~cleaner.dry => last.processed = <<>>

C14_Witness ==
  /\ CleanupDone
  /\ ~cleaner.dry
  /\ origin.owed # {}
  /\ origin.pending # {}
  /\ origin.pending # origin.owed
  /\ Cardinality(ValidOnDisk(origin.disk)) >= cleaner.keep + 2

(***************************************************************************)
(* C15: the constructor only asks whether the base path exists.  For a     *)
(* base path that is a regular file, construction with a positive          *)
(* keepCount and the known strategy succeeds, listIterations returns the   *)
(* empty list, and cleanup ends with the scan error and deletes nothing.   *)
(***************************************************************************)
C15_BaseIsRegularFile ==
  /\ ( /\ last.op = "construct"
       /\ last.beforeBase = "file"
       /\ last.args.keep > 0
       /\ last.args.strategy = "KEEP_RECENT_N" )
     => (last.result = "ok" /\ cleaner.state = "constructed")
  /\ (last.op = "list" /\ last.beforeBase = "file")
     => (last.result = "ok" /\ last.value = <<>>)
  /\ (CleanupDone /\ last.beforeBase = "file")
     => /\ last.result = "runtime_error"
        /\ last.processed = <<>>
        /\ children = last.before
        /\ baseKind = "file"

C15_Witness ==
  /\ CleanupDone
  /\ last.beforeBase = "file"
  /\ last.result = "runtime_error"
  /\ cleaner.state = "constructed"

====
